---- MODULE Spec2Model ----
(***************************************************************************)
(* youtubeagent/app.py: a Flask module that builds one process-wide Crew   *)
(* at import time and serves one route, index, on GET / and POST /.       *)
(*                                                                         *)
(* The model has two parts.  The module body (lines 1-21, then 23-47) is   *)
(* executed statement by statement from process start; the handler index   *)
(* (lines 23-44) is executed once per request, split at the only point     *)
(* where it blocks: the call crew.kickoff of line 34.                      *)
(***************************************************************************)
EXTENDS Integers, Sequences, FiniteSets, TLC

VARIABLES
    pc,         \* where the process is: a line of the module body, or
                \* "serving", "crashed" (uncaught exception at import), "exited"
    globals,    \* the names bound in the module's namespace
    builtins,   \* the names the builtins namespace holds beyond Python's own
    environ,    \* os.environ
    dotenvFile, \* the key/value pairs of the .env file
    traceback,  \* the uncaught exception that ended the module body, or None
    crew,       \* the value bound to the module-level name crew
    constructions, \* how many times Crew(...) has been called
    routes,     \* the URL rules registered on app
    threaded,   \* whether the server handles requests on threads of their own
    R,          \* the requests accepted so far, in order of acceptance
    kickoffs    \* the calls of crew.kickoff so far: <<request, inputs>>

vars == <<pc, globals, builtins, environ, dotenvFile, traceback, crew,
          constructions, routes, threaded, R, kickoffs>>

loadVars == <<globals, builtins, environ, dotenvFile, traceback, crew,
              constructions, routes>>

---------------------------------------------------------------------------
(* Bounds *)

MaxRequests == 2    \* requests accepted in one run
MaxThreads == 2     \* requests a threaded server handles at once
MaxBlank == 1       \* longest whitespace-only topic

---------------------------------------------------------------------------
(* Python values *)

None == "None"

\* A mapping is a function from a finite set of keys; get is dict.get.
get(m, key, default) == IF key \in DOMAIN m THEN m[key] ELSE default

\* Python truth value of an optional string: None and "" are false.
Truthy(s) == s # None /\ Len(s) > 0

RECURSIVE Blank(_)
Blank(n) == IF n = 0 THEN "" ELSE " " \o Blank(n - 1)

WhitespaceOnly == {Blank(n) : n \in 1..MaxBlank}

Topics == {""} \cup WhitespaceOnly \cup {"cats"}

\* request.form of a request: without the field, or with topic = t
Forms == {<<>>} \cup {[topic |-> t] : t \in Topics}

Methods == {"GET", "POST"}

---------------------------------------------------------------------------
(* The collaborator: what crew.kickoff can do *)

Keys == {"write_task_output", "research_task_output"}
Contents == {"Cats are great."}

Mappings == UNION {[K -> Contents] : K \in SUBSET Keys}

\* kickoff returns a mapping, or a value that is no mapping (a plain string)
Results == {[type |-> "dict", value |-> m] : m \in Mappings}
             \cup {[type |-> "str", value |-> "Cats are great."]}

\* kickoff raises: an exception class and the text str(e) gives
ExcClasses == {"RuntimeError", "SystemExit"}
Messages == {"boom"}
Raised == [class : ExcClasses, msg : Messages]

\* issubclass(class, Exception): these three derive from BaseException only
IsException(class) ==
    class \notin {"SystemExit", "KeyboardInterrupt", "GeneratorExit"}

---------------------------------------------------------------------------
(* The module body, lines 1-21 *)

\* os.environ and the .env file
EnvKeys == {"OPENAI_API_KEY", "OPENAI_MODEL_NAME"}
EnvValues == {"from-env", "from-file"}
EnvMaps == [EnvKeys -> EnvValues \cup {None}]

\* the names lines 1-5 bind
ImportedNames == {"os", "load_dotenv", "research_task", "write_task",
                  "blog_researcher", "blog_writer", "Flask",
                  "render_template", "request"}

\* A name resolves in the module's globals, then in builtins.
Resolves(name) == name \in globals \cup builtins

\* the names the expression of lines 13-21 loads, in evaluation order
CrewExprNames == <<"Crew", "blog_researcher", "blog_writer", "research_task",
                   "write_task", "Process">>

Unresolved(names) == {i \in DOMAIN names : ~Resolves(names[i])}

FirstUnresolved(names) ==
    names[CHOOSE i \in Unresolved(names) : \A j \in Unresolved(names) : i <= j]

NameError(name) == "name '" \o name \o "' is not defined"

NoObject == [type |-> "unbound"]

\* the object Crew(...) of lines 13-21 builds from its keyword arguments
StartupCrew ==
    [type |-> "Crew",
     agents |-> <<"blog_researcher", "blog_writer">>,
     tasks |-> <<"research_task", "write_task">>,
     process |-> "sequential",
     memory |-> TRUE,
     cache |-> TRUE,
     max_rpm |-> 100,
     share_crew |-> TRUE]

\* lines 1-5
imports ==
    /\ pc = "line1"
    /\ globals' = globals \cup ImportedNames
    /\ pc' = "line8"
    /\ UNCHANGED <<builtins, environ, dotenvFile, traceback, crew,
                   constructions, routes, threaded, R, kickoffs>>

\* line 8: load_dotenv() sets the variables the environment does not hold yet
load_dotenv ==
    /\ pc = "line8"
    /\ environ' = [k \in EnvKeys |->
                     IF environ[k] # None THEN environ[k] ELSE dotenvFile[k]]
    /\ pc' = "line10"
    /\ UNCHANGED <<globals, builtins, dotenvFile, traceback, crew,
                   constructions, routes, threaded, R, kickoffs>>

\* line 10: app = Flask(__name__)
create_app ==
    /\ pc = "line10"
    /\ globals' = globals \cup {"app"}
    /\ routes' = {}
    /\ pc' = "line13"
    /\ UNCHANGED <<builtins, environ, dotenvFile, traceback, crew,
                   constructions, threaded, R, kickoffs>>

\* lines 13-21: crew = Crew(...).  A name that does not resolve raises
\* NameError, which nothing catches: the module body ends there.
construct_crew ==
    /\ pc = "line13"
    /\ IF Unresolved(CrewExprNames) = {}
       THEN /\ crew' = StartupCrew
            /\ constructions' = constructions + 1
            /\ globals' = globals \cup {"crew"}
            /\ pc' = "line23"
            /\ UNCHANGED traceback
       ELSE /\ traceback' = NameError(FirstUnresolved(CrewExprNames))
            /\ pc' = "crashed"
            /\ UNCHANGED <<crew, constructions, globals>>
    /\ UNCHANGED <<builtins, environ, dotenvFile, routes, threaded, R, kickoffs>>

\* lines 23-24: the decorator registers index for GET and POST on /
register_index ==
    /\ pc = "line23"
    /\ routes' = routes \cup {[rule |-> "/", methods |-> {"GET", "POST"},
                               endpoint |-> "index"]}
    /\ globals' = globals \cup {"index"}
    /\ pc' = "line46"
    /\ UNCHANGED <<builtins, environ, dotenvFile, traceback, crew,
                   constructions, threaded, R, kickoffs>>

\* lines 46-47: app.run(debug=True).  Whether the development server runs
\* each request on a thread of its own is the installed Flask's default.
app_run ==
    /\ pc = "line46"
    /\ threaded' \in BOOLEAN
    /\ pc' = "serving"
    /\ UNCHANGED <<loadVars, R, kickoffs>>

---------------------------------------------------------------------------
(* The handler index, lines 23-44 *)

\* render_template('index.html', ...): the template context; a variable the
\* call does not pass is undefined in the template
render_template(topic, blog_content, error) ==
    [topic |-> topic, blog_content |-> blog_content, error |-> error]

\* line 27: request.form.get('topic')
form_topic(form) == get(form, "topic", None)

\* line 29 as it would be with the topic stripped first: not topic.strip()
topic_missing_stripped(topic) == ~Truthy(topic) \/ topic \in WhitespaceOnly

\* line 29 as it would be testing for the absent field only: topic is None
topic_missing_none_only(topic) == topic = None

\* line 29: not topic
topic_missing(topic) == ~Truthy(topic)

\* line 30 as it would be with a module-level variable remembering the topic
\* of the request before
missing_page_sticky ==
    render_template(IF R = <<>> THEN None ELSE get(R[Len(R)].form, "topic", None),
                    None, "Please enter a topic.")

\* line 30
missing_page == render_template(None, None, "Please enter a topic.")

\* line 34 as it would be passing the stripped topic: topic.strip()
kickoff_inputs_stripped(topic) ==
    [topic |-> IF topic \in WhitespaceOnly THEN "" ELSE topic]

\* line 34: the keyword argument inputs
kickoff_inputs(topic) == [topic |-> topic]

\* line 37 reading the other task's output
blog_content_of_research(mapping) ==
    get(mapping, "research_task_output", "Blog generation failed.")

\* line 37 without the default: result.get('write_task_output')
blog_content_of_no_default(mapping) == get(mapping, "write_task_output", None)

\* line 37: result.get('write_task_output', "Blog generation failed.")
blog_content_of(mapping) ==
    get(mapping, "write_task_output", "Blog generation failed.")

\* line 39
success_page(topic, blog_content) == render_template(topic, blog_content, None)

\* line 41 as it would be catching one class of error: except ValueError
caught_value_error(class) == class = "ValueError"

\* line 41: except Exception
caught(class) == IsException(class)

\* line 42 as it would be without the exception's text
error_page_no_message(msg) == render_template(None, None, "An error occurred: ")

\* line 42
error_page(msg) == render_template(None, None, "An error occurred: " \o msg)

\* line 44 as it would be re-rendering what the request before was given
form_page_sticky ==
    IF R = <<>> \/ R[Len(R)].pages = <<>>
    THEN render_template(None, None, None)
    ELSE R[Len(R)].pages[1]

\* line 44
form_page == render_template(None, None, None)

\* line 37 on a value that has no method get
AttributeError(type) == "'" \o type \o "' object has no attribute 'get'"

NoOutcome == [kind |-> "none"]

\* a request whose handler has returned a page
Responded(method, form, outcome, page) ==
    [method |-> method, form |-> form, state |-> "responded", hangs |-> FALSE,
     outcome |-> outcome, pages |-> <<page>>]

\* a request whose handler is inside crew.kickoff
Calling(method, form, hangs) ==
    [method |-> method, form |-> form, state |-> "kickoff", hangs |-> hangs,
     outcome |-> NoOutcome, pages |-> <<>>]

InFlight == Cardinality({i \in DOMAIN R : R[i].state = "kickoff"})

\* the requests the server handles at once
Workers == IF threaded THEN MaxThreads ELSE 1

\* Lines 25-34 and 44: a request arrives for a method of the route and index
\* runs until it returns a page or enters crew.kickoff.  hangs tells whether
\* that call of kickoff will never come back.
index(method, form) ==
    /\ pc = "serving"
    /\ Len(R) < MaxRequests
    /\ InFlight < Workers
    /\ \E rt \in routes :
          rt.rule = "/" /\ rt.endpoint = "index" /\ method \in rt.methods
    /\ LET id == Len(R) + 1
           topic == form_topic(form)
       IN  IF method = "POST"
           THEN IF topic_missing(topic)
                THEN /\ R' = Append(R, Responded(method, form, NoOutcome,
                                                 missing_page))
                     /\ UNCHANGED kickoffs
                ELSE IF ~Resolves("crew")
                THEN /\ R' = Append(R, Responded(method, form, NoOutcome,
                                                 error_page(NameError("crew"))))
                     /\ UNCHANGED kickoffs
                ELSE /\ \E hangs \in BOOLEAN :
                          R' = Append(R, Calling(method, form, hangs))
                     /\ kickoffs' = Append(kickoffs,
                                           <<id, kickoff_inputs(topic)>>)
           ELSE /\ R' = Append(R, Responded(method, form, NoOutcome, form_page))
                /\ UNCHANGED kickoffs
    /\ UNCHANGED <<pc, loadVars, threaded>>

\* Lines 41-42, for an exception exc raised inside the try block by request
\* id.  An exception line 41 does not catch leaves index: no page is returned;
\* a server that runs the handler on its main thread ends with it, a threaded
\* one loses that thread only.
except_clause(id, exc, outcome) ==
    IF caught(exc.class)
    THEN /\ R' = [R EXCEPT ![id] = [@ EXCEPT
                     !.state = "responded",
                     !.outcome = outcome,
                     !.pages = Append(@, error_page(exc.msg))]]
         /\ UNCHANGED pc
    ELSE /\ R' = [R EXCEPT ![id] = [@ EXCEPT
                     !.state = "propagated",
                     !.outcome = outcome]]
         /\ pc' = IF threaded THEN "serving" ELSE "exited"

\* Lines 34-39: kickoff returns result.  Line 37 raises AttributeError on a
\* result that has no method get.
kickoff_returns(id, result) ==
    /\ pc = "serving"
    /\ id \in DOMAIN R
    /\ R[id].state = "kickoff"
    /\ ~R[id].hangs
    /\ LET topic == form_topic(R[id].form)
           outcome == [kind |-> "return", result |-> result]
       IN  IF result.type = "dict"
           THEN /\ R' = [R EXCEPT ![id] = [@ EXCEPT
                            !.state = "responded",
                            !.outcome = outcome,
                            !.pages = Append(@,
                                success_page(topic,
                                             blog_content_of(result.value)))]]
                /\ UNCHANGED pc
           ELSE except_clause(id,
                              [class |-> "AttributeError",
                               msg |-> AttributeError(result.type)],
                              outcome)
    /\ UNCHANGED <<loadVars, threaded, kickoffs>>

\* Lines 34 and 41-42: kickoff raises exc.
kickoff_raises(id, exc) ==
    /\ pc = "serving"
    /\ id \in DOMAIN R
    /\ R[id].state = "kickoff"
    /\ ~R[id].hangs
    /\ except_clause(id, exc, [kind |-> "raise", exc |-> exc])
    /\ UNCHANGED <<loadVars, threaded, kickoffs>>

---------------------------------------------------------------------------
(* Specifications *)

\* Process start: nothing of the module body has run.
InitCommon ==
    /\ pc = "line1"
    /\ globals = {"__name__"}
    /\ traceback = None
    /\ crew = NoObject
    /\ constructions = 0
    /\ routes = {}
    /\ threaded = FALSE
    /\ R = <<>>
    /\ kickoffs = <<>>

\* python app.py: the builtins are Python's own, the environment and the
\* .env file are any.
Init ==
    /\ InitCommon
    /\ builtins = {}
    /\ environ \in EnvMaps
    /\ dotenvFile \in EnvMaps

Load == imports \/ load_dotenv \/ create_app \/ construct_crew

Next == Load

Spec == Init /\ [][Next]_vars

\* The module executed by a harness that supplies the collaborator: Crew and
\* Process are resolvable names when line 13 runs.
InitHarness ==
    /\ InitCommon
    /\ builtins = {"Crew", "Process"}
    /\ environ = [k \in EnvKeys |-> None]
    /\ dotenvFile = [k \in EnvKeys |-> "from-file"]

Serve ==
    \/ \E method \in Methods, form \in Forms : index(method, form)
    \/ \E id \in 1..MaxRequests, result \in Results : kickoff_returns(id, result)
    \/ \E id \in 1..MaxRequests, exc \in Raised : kickoff_raises(id, exc)

NextHarness == Load \/ register_index \/ app_run \/ Serve

SpecHarness == InitHarness /\ [][NextHarness]_vars

\* A call of kickoff that is not one that hangs comes back: it returns or
\* raises.
Completes(id) ==
    \/ \E result \in Results : kickoff_returns(id, result)
    \/ \E exc \in Raised : kickoff_raises(id, exc)

SpecLive ==
    /\ InitHarness
    /\ [][NextHarness]_vars
    /\ \A id \in 1..MaxRequests : WF_vars(Completes(id))

---------------------------------------------------------------------------
(* Properties *)

\* the calls of crew.kickoff made for request i
Calls(i) == {k \in DOMAIN kickoffs : kickoffs[k][1] = i}

HasTopic(i) == "topic" \in DOMAIN R[i].form

Posts == {i \in DOMAIN R : R[i].method = "POST"}

Rejected(i) ==
    /\ R[i].state = "responded"
    /\ Len(R[i].pages) = 1
    /\ R[i].pages[1].error = "Please enter a topic."

\* C1, as stated: every POST whose topic is empty or whitespace-only is
\* answered with the error "Please enter a topic." and makes no call of
\* crew.kickoff.
C1_AsStated ==
    \A i \in Posts :
        (HasTopic(i) /\ R[i].form.topic \in {""} \cup WhitespaceOnly)
            => Rejected(i) /\ Calls(i) = {}

\* C1, amended: every POST whose topic is the empty string is answered with
\* the error "Please enter a topic." and makes no call of crew.kickoff; a
\* whitespace-only topic is not rejected: it is passed to crew.kickoff as it is.
C1_EmptyRejectedBlankForwarded ==
    \A i \in Posts :
        /\ (HasTopic(i) /\ R[i].form.topic = "")
              => Rejected(i) /\ Calls(i) = {}
        /\ (HasTopic(i) /\ R[i].form.topic \in WhitespaceOnly)
              => /\ ~Rejected(i)
                 /\ \E k \in Calls(i) :
                        kickoffs[k][2] = [topic |-> R[i].form.topic]

C1_Witness ==
    \E i, j \in Posts :
        /\ HasTopic(i) /\ R[i].form.topic = "" /\ Rejected(i)
        /\ HasTopic(j) /\ R[j].form.topic \in WhitespaceOnly
        /\ R[j].state = "responded"

\* C2: a step that handles a POST whose topic field is absent or empty returns
\* the form with error "Please enter a topic.", no topic and no blog content,
\* and leaves the calls of crew.kickoff as they were before the request.
C2_MissingTopicRejectedWithoutCall ==
    [][(/\ Len(R') = Len(R) + 1
        /\ R'[Len(R')].method = "POST"
        /\ ("topic" \in DOMAIN R'[Len(R')].form => R'[Len(R')].form.topic = ""))
       => /\ kickoffs' = kickoffs
          /\ R'[Len(R')].state = "responded"
          /\ R'[Len(R')].pages =
                <<[topic |-> None, blog_content |-> None,
                   error |-> "Please enter a topic."]>>]_vars

C2_Witness ==
    \E i, j \in Posts :
        /\ i < j
        /\ Calls(i) # {}
        /\ ~HasTopic(j)
        /\ Rejected(j)

\* the mapping crew.kickoff returned to request i, when it returned one
ReturnedMapping(i) ==
    /\ R[i].outcome.kind = "return"
    /\ R[i].outcome.result.type = "dict"

NonEmptyPost(i) == i \in Posts /\ HasTopic(i) /\ R[i].form.topic # ""

\* C3: a POST with a non-empty topic T whose call of crew.kickoff returns a
\* mapping holding "write_task_output" = S is answered with topic T, blog
\* content S and no error, whatever else the mapping holds.
C3_WriteTaskOutputRendered ==
    \A i \in DOMAIN R :
        (/\ NonEmptyPost(i)
         /\ ReturnedMapping(i)
         /\ "write_task_output" \in DOMAIN R[i].outcome.result.value)
        => R[i].pages =
              <<[topic |-> R[i].form.topic,
                 blog_content |-> R[i].outcome.result.value["write_task_output"],
                 error |-> None]>>

C3_Witness ==
    \E i \in DOMAIN R :
        /\ NonEmptyPost(i)
        /\ ReturnedMapping(i)
        /\ DOMAIN R[i].outcome.result.value = Keys
        /\ R[i].outcome.result.value["write_task_output"] = "Cats are great."
        /\ R[i].outcome.result.value["research_task_output"] = "Cats are great."
        /\ R[i].state = "responded"

\* C4: a POST with a non-empty topic T whose call of crew.kickoff returns a
\* mapping without the key "write_task_output" is answered with topic T and
\* blog content "Blog generation failed.", which is blog content, not an error.
C4_DefaultContentRendered ==
    \A i \in DOMAIN R :
        (/\ NonEmptyPost(i)
         /\ ReturnedMapping(i)
         /\ "write_task_output" \notin DOMAIN R[i].outcome.result.value)
        => R[i].pages =
              <<[topic |-> R[i].form.topic,
                 blog_content |-> "Blog generation failed.",
                 error |-> None]>>

C4_Witness ==
    \E i, j \in DOMAIN R :
        /\ NonEmptyPost(i) /\ ReturnedMapping(i)
        /\ DOMAIN R[i].outcome.result.value = {}
        /\ NonEmptyPost(j) /\ ReturnedMapping(j)
        /\ DOMAIN R[j].outcome.result.value = {"research_task_output"}

ContractPage(method, form, outcome) ==
    IF method = "GET"
    THEN [topic |-> None, blog_content |-> None, error |-> None]
    ELSE IF "topic" \notin DOMAIN form \/ form.topic = ""
    THEN [topic |-> None, blog_content |-> None,
          error |-> "Please enter a topic."]
    ELSE IF outcome.kind = "raise"
    THEN [topic |-> None, blog_content |-> None,
          error |-> "An error occurred: " \o outcome.exc.msg]
    ELSE IF outcome.result.type = "dict"
    THEN [topic |-> form.topic,
          blog_content |->
              IF "write_task_output" \in DOMAIN outcome.result.value
              THEN outcome.result.value["write_task_output"]
              ELSE "Blog generation failed.",
          error |-> None]
    ELSE [topic |-> None, blog_content |-> None,
          error |-> "An error occurred: '" \o outcome.result.type
                       \o "' object has no attribute 'get'"]

C6_GetRendersEmptyForm ==
    \A i \in DOMAIN R :
        R[i].method = "GET"
        => /\ Calls(i) = {}
           /\ R[i].state = "responded"
           /\ R[i].pages =
                 <<[topic |-> None, blog_content |-> None, error |-> None]>>

C6_Witness ==
    \E i, j \in DOMAIN R :
        /\ i < j
        /\ NonEmptyPost(i)
        /\ R[i].state = "responded"
        /\ R[i].pages[1].error # None
        /\ R[j].method = "GET"
        /\ HasTopic(j)
        /\ R[j].state = "responded"

\* C7, as stated: the module-level crew is constructed exactly once at
\* process start, successfully: once the module body is past lines 13-21 the
\* handle exists with its startup configuration, and it does whenever a
\* request is handled.
C7_AsStated ==
    /\ pc \notin {"line1", "line8", "line10", "line13"}
          => /\ crew = [type |-> "Crew",
                        agents |-> <<"blog_researcher", "blog_writer">>,
                        tasks |-> <<"research_task", "write_task">>,
                        process |-> "sequential",
                        memory |-> TRUE,
                        cache |-> TRUE,
                        max_rpm |-> 100,
                        share_crew |-> TRUE]
             /\ constructions = 1
             /\ "crew" \in globals
    /\ R # <<>> => crew.type = "Crew"

\* C8: a POST with a non-empty topic T makes exactly one call of crew.kickoff,
\* with inputs {"topic": T}; it has a page only once that call has returned or
\* raised; and no call is made for anything else.
C8_OneSynchronousCall ==
    /\ \A i \in DOMAIN R :
          NonEmptyPost(i)
          => /\ Cardinality(Calls(i)) = 1
             /\ \A k \in Calls(i) : kickoffs[k][2] = [topic |-> R[i].form.topic]
             /\ R[i].pages # <<>> => R[i].outcome.kind \in {"return", "raise"}
             /\ Len(R[i].pages) <= 1
    /\ \A k \in DOMAIN kickoffs :
          kickoffs[k][1] \in DOMAIN R /\ NonEmptyPost(kickoffs[k][1])

C8_Witness ==
    \E i, j \in DOMAIN R :
        /\ NonEmptyPost(i)
        /\ R[i].outcome.kind = "raise"
        /\ R[i].state = "responded"
        /\ Cardinality(Calls(i)) = 1
        /\ NonEmptyPost(j)
        /\ R[j].form.topic \in WhitespaceOnly
        /\ R[j].state = "kickoff"

SameOutcome(o1, o2) ==
    /\ o1.kind = o2.kind
    /\ o1.kind = "raise" => o1.exc = o2.exc
    /\ o1.kind = "return"
          => /\ o1.result.type = o2.result.type
             /\ o1.result.type = o2.result.type
                   => o1.result.value = o2.result.value

\* C9: the response to a request is a function of its method and topic field
\* and of the outcome of the call made for it: two requests that agree on
\* these are given the same page, whatever was handled before each, and the
\* page is the one the contract gives.
C9_ResponseIndependentOfHistory ==
    /\ \A i, j \in DOMAIN R :
          (/\ R[i].state # "kickoff"
           /\ R[j].state # "kickoff"
           /\ R[i].method = R[j].method
           /\ R[i].form = R[j].form
           /\ SameOutcome(R[i].outcome, R[j].outcome))
          => R[i].state = R[j].state /\ R[i].pages = R[j].pages
    /\ \A i \in DOMAIN R :
          R[i].state = "responded"
          => R[i].pages = <<ContractPage(R[i].method, R[i].form, R[i].outcome)>>

C9_Witness ==
    \E i, j \in DOMAIN R :
        /\ i < j
        /\ R[i].method = "POST"
        /\ R[i].form = R[j].form
        /\ R[i].method = R[j].method
        /\ ~HasTopic(i)
        /\ R[i].state = "responded"
        /\ R[j].state = "responded"

====
